---- MODULE Spec2Model ----
(***************************************************************************)
(* openfoam-ensemble.py: the field-name resolver get_field_name, the store *)
(* client it drives, and the module-level ensemble script.                 *)
(*                                                                         *)
(* Spec       : get_field_name called repeatedly, with any arguments, on a *)
(*              client in any addressing state, while solver processes     *)
(*              post their metadata.                                       *)
(* DetSpec    : the same calls on a store that does not change, an earlier *)
(*              call remembered for comparison.                            *)
(* ScriptSpec : the module-level script, lines 61-110, while the solver    *)
(*              processes post metadata and tensors.                       *)
(***************************************************************************)
EXTENDS Integers, Sequences, FiniteSets, TLC

VARIABLES
    pc,         \* position of the top-level code (script line, or the caller of the resolver)
    gpc,        \* position inside get_field_name ("none" outside a call)
    frame,      \* arguments and locals of the current/last get_field_name call
    result,     \* how the last get_field_name call ended
    client,     \* the SmartRedis client's addressing state
    SSKEYIN,    \* os.environ['SSKEYIN'] (PyNone when unset)
    datasets,   \* store: the datasets, each [key, meta]
    tensors,    \* store: the keys of the tensors
    members,    \* the ensemble's entities (their names), in iteration order
    idx,        \* script: index of the loop variable e in members
    t_exists,   \* result of the last client.tensor_exists call
    steps,      \* script: the lifecycle steps completed so far, in order
    log,        \* script: one record per tensor_exists call
    scoped_by,  \* name of the member given to the most recent call that had one
    memo        \* an earlier call that returned: its arguments, read key and result

vars == <<pc, gpc, frame, result, client, SSKEYIN, datasets, tensors, members,
          idx, t_exists, steps, log, scoped_by, memo>>

-----------------------------------------------------------------------------
(* Bounds *)

\* members of the ensemble the resolver is exercised with under Spec
HarnessMembers == 2

(* Program constants *)

\* n_models=4, one member per n_cells value
NModels == 4
\* client.poll_dataset(ds_name, 10, 1000): number of tries
PollTries == 10

-----------------------------------------------------------------------------
(* Python values *)

PyNone == [t |-> "none", i |-> 0, s |-> ""]
PyInt(n) == [t |-> "int", i |-> n, s |-> ""]
PyStr(x) == [t |-> "str", i |-> 0, s |-> x]
\* an ensemble entity; only its .name is read
Entity(name) == [t |-> "entity", i |-> 0, s |-> name]

Digit(d) ==
    CASE d = 0 -> "0" [] d = 1 -> "1" [] d = 2 -> "2" [] d = 3 -> "3"
      [] d = 4 -> "4" [] d = 5 -> "5" [] d = 6 -> "6" [] d = 7 -> "7"
      [] d = 8 -> "8" [] d = 9 -> "9"

RECURSIVE IntStr(_)
IntStr(n) == IF n < 10 THEN Digit(n) ELSE IntStr(n \div 10) \o Digit(n % 10)

\* str(v), as Jinja2 writes a value into the output
PyToStr(v) ==
    CASE v.t = "int" -> (IF v.i < 0 THEN "-" \o IntStr(0 - v.i) ELSE IntStr(v.i))
      [] v.t = "none" -> "None"
      [] OTHER -> v.s

-----------------------------------------------------------------------------
(* Jinja2 templates: a parsed template is a sequence of literal text and   *)
(* {{ variable }} outputs.                                                 *)

Lit(x) == [var |-> FALSE, s |-> x]
Var(x) == [var |-> TRUE, s |-> x]

\* env = jj.Environment(): the default Undefined type, whose str() is ""
Undefined == ""

Emit(tok, ctx) ==
    IF ~tok.var THEN tok.s
    ELSE IF tok.s \in DOMAIN ctx THEN PyToStr(ctx[tok.s]) ELSE Undefined

RECURSIVE Render(_, _)
Render(tpl, ctx) ==
    IF tpl = <<>> THEN "" ELSE Emit(Head(tpl), ctx) \o Render(Tail(tpl), ctx)

\* the variables a template references that the context does not supply
Unknown(tpl, ctx) ==
    {tpl[k].s : k \in {j \in 1..Len(tpl) : tpl[j].var}} \ DOMAIN ctx

-----------------------------------------------------------------------------
(* The store and the client's read scope *)

\* the key a name is stored under in a namespace
Key(prefix, name) == IF prefix = "" THEN name ELSE prefix \o "." \o name

\* the prefix the client puts before a name of an object class
ReadPrefix(c, toggle) == IF toggle /\ c.source # "" THEN c.source ELSE ""

DatasetExists(key) == \E d \in datasets : d.key = key
GetDataset(key) == (CHOOSE d \in datasets : d.key = key).meta

NoClient == [source |-> "", dataset |-> FALSE, list |-> FALSE,
             model |-> FALSE, tensor |-> FALSE]

\* the addressing states a client is handed over in: fresh with every toggle
\* off, fresh with some toggles on, left scoped to the last member by an
\* earlier resolution, or given a source by hand with one toggle on
InitialClients(names) ==
    { NoClient,
      [NoClient EXCEPT !.dataset = TRUE, !.list = TRUE, !.tensor = TRUE],
      [source |-> names[Len(names)], dataset |-> TRUE, list |-> TRUE,
       model |-> TRUE, tensor |-> TRUE],
      [NoClient EXCEPT !.source = names[1], !.tensor = TRUE] }

Scoped(c, name) ==
    c.source = name /\ c.dataset /\ c.list /\ c.model /\ c.tensor

-----------------------------------------------------------------------------
(* The ensemble *)

EnsembleName == "mesh-study"
MemberName(i) == EnsembleName \o "_" \o IntStr(i)
Entities(n) == [i \in 1..n |-> MemberName(i - 1)]

Range(f) == {f[x] : x \in DOMAIN f}

RECURSIVE Join(_)
Join(names) ==
    IF names = <<>> THEN ""
    ELSE IF Len(names) = 1 THEN names[1]
    ELSE names[1] \o "," \o Join(Tail(names))

fn_name == "pUPhiTest"

\* ds_name = f"{fn_name}_metadata"
MetaName(fn) == fn \o "_metadata"

-----------------------------------------------------------------------------
(* Metadata the function object posts: string fields of a dataset, each a  *)
(* list of template strings.                                               *)

NoMeta == [keys |-> {}, dataset |-> <<>>, field |-> <<>>]

T_ds == <<Lit("ts"), Var("time_index"), Lit("_p"), Var("mpi_rank")>>
T_field == <<Var("name"), Lit("_"), Var("patch")>>
\* uses one of the two parameters given
T_rank == <<Lit("rank"), Var("mpi_rank")>>
\* references a parameter that is not given
T_region == <<Var("name"), Lit("_"), Var("region")>>

MetaPool ==
    { [keys |-> {"dataset", "field"}, dataset |-> <<T_ds>>, field |-> <<T_field>>],
      [keys |-> {"dataset", "field"}, dataset |-> <<T_rank, T_ds>>, field |-> <<T_field>>],
      [keys |-> {"dataset", "field"}, dataset |-> <<T_ds>>, field |-> <<T_region>>],
      [keys |-> {"dataset"}, dataset |-> <<T_ds>>, field |-> <<>>],
      [keys |-> {"dataset", "field"}, dataset |-> <<>>, field |-> <<T_field>>] }

-----------------------------------------------------------------------------
(* get_field_name, lines 19-46 *)

NoResult == [kind |-> "none", exc |-> "", text |-> "", msg |-> <<>>]
Returned(x) == [kind |-> "return", exc |-> "", text |-> x, msg |-> <<>>]
Raised(e, m) == [kind |-> "raise", exc |-> e, text |-> "", msg |-> m]

NoFrame ==
    [fn_name |-> "", field_name |-> "", processor |-> PyNone, timestep |-> PyNone,
     ensemble_member |-> PyNone, ds_name |-> "", tries |-> 0, ds_found |-> FALSE,
     meta |-> NoMeta, ds_naming |-> <<>>, f_naming |-> <<>>, f_name |-> "",
     client0 |-> NoClient, read_key |-> ""]

NoMemo ==
    [set |-> FALSE, fn_name |-> "", field_name |-> "", processor |-> PyNone,
     timestep |-> PyNone, ensemble_member |-> PyNone, client0 |-> NoClient,
     read_key |-> "", text |-> ""]

\* the call: arguments bound, locals unset
Enter(fn, field, processor, timestep, member) ==
    /\ gpc' = "L31"
    /\ frame' = [NoFrame EXCEPT !.fn_name = fn, !.field_name = field,
                                !.processor = processor, !.timestep = timestep,
                                !.ensemble_member = member, !.client0 = client]
    /\ result' = NoResult
    /\ scoped_by' = IF member # PyNone THEN member.s ELSE scoped_by

Local == <<pc, SSKEYIN, datasets, tensors, members, idx, t_exists, steps, log, scoped_by, memo>>

\* line 31 with an else branch that turns the prefixes off
IfMember_reset ==
    /\ gpc = "L31"
    /\ gpc' = IF frame.ensemble_member # PyNone THEN "L32" ELSE "L37"
    /\ client' = IF frame.ensemble_member # PyNone THEN client
                 ELSE [client EXCEPT !.dataset = FALSE, !.list = FALSE,
                                     !.model = FALSE, !.tensor = FALSE]
    /\ UNCHANGED <<frame, result, Local>>

\* line 31: if (ensemble_member != None)
IfMember ==
    /\ gpc = "L31"
    /\ gpc' = IF frame.ensemble_member # PyNone THEN "L32" ELSE "L37"
    /\ UNCHANGED <<frame, result, client, Local>>

\* line 32 left out
SetDataSource_skip ==
    /\ gpc = "L32"
    /\ gpc' = "L33"
    /\ UNCHANGED <<frame, result, client, Local>>

\* line 32
SetDataSource ==
    /\ gpc = "L32"
    /\ client' = [client EXCEPT !.source = frame.ensemble_member.s]
    /\ gpc' = "L33"
    /\ UNCHANGED <<frame, result, Local>>

\* line 33
UseDatasetEnsemblePrefix ==
    /\ gpc = "L33"
    /\ client' = [client EXCEPT !.dataset = TRUE]
    /\ gpc' = "L34"
    /\ UNCHANGED <<frame, result, Local>>

\* line 34
UseListEnsemblePrefix ==
    /\ gpc = "L34"
    /\ client' = [client EXCEPT !.list = TRUE]
    /\ gpc' = "L35"
    /\ UNCHANGED <<frame, result, Local>>

\* line 35 left out
UseModelEnsemblePrefix_skip ==
    /\ gpc = "L35"
    /\ gpc' = "L36"
    /\ UNCHANGED <<frame, result, client, Local>>

\* line 35
UseModelEnsemblePrefix ==
    /\ gpc = "L35"
    /\ client' = [client EXCEPT !.model = TRUE]
    /\ gpc' = "L36"
    /\ UNCHANGED <<frame, result, Local>>

\* line 36
UseTensorEnsemblePrefix ==
    /\ gpc = "L36"
    /\ client' = [client EXCEPT !.tensor = TRUE]
    /\ gpc' = "L37"
    /\ UNCHANGED <<frame, result, Local>>

\* line 37
DsName ==
    /\ gpc = "L37"
    /\ frame' = [frame EXCEPT !.ds_name = MetaName(frame.fn_name)]
    /\ gpc' = "L38"
    /\ UNCHANGED <<result, client, Local>>

\* line 38: one try of client.poll_dataset(ds_name, 10, 1000); the tries are
\* 1000 ms apart, so the store may change between two of them
PollDataset ==
    /\ gpc = "L38"
    /\ frame.tries < PollTries
    /\ LET key == Key(ReadPrefix(client, client.dataset), frame.ds_name)
           found == DatasetExists(key)
           last == frame.tries + 1 = PollTries
       IN /\ frame' = [frame EXCEPT !.tries = @ + 1, !.ds_found = found,
                                    !.read_key = key]
          /\ gpc' = IF found THEN "L41" ELSE IF last THEN "L40" ELSE "L38"
    /\ UNCHANGED <<result, client, Local>>

\* lines 39-40: the message is formatted first, and reads os.environ['SSKEYIN']
RaiseNotFound ==
    /\ gpc = "L40"
    /\ result' = IF SSKEYIN = PyNone
                 THEN Raised("KeyError", <<"SSKEYIN">>)
                 ELSE Raised("ValueError",
                             <<"Could not find dataset ", frame.ds_name,
                               " under prefix '", SSKEYIN.s, "'">>)
    /\ gpc' = "raised"
    /\ UNCHANGED <<frame, client, Local>>

\* line 41
GetDatasetStep ==
    /\ gpc = "L41"
    /\ LET key == Key(ReadPrefix(client, client.dataset), frame.ds_name)
       IN frame' = [frame EXCEPT !.meta = GetDataset(key), !.read_key = key]
    /\ gpc' = "L42"
    /\ UNCHANGED <<result, client, Local>>

\* a missing or empty field read as an empty template
FirstMetaString_default(meta, name) ==
    IF name \notin meta.keys \/ meta[name] = <<>>
    THEN [ok |-> TRUE, exc |-> "", tpl |-> <<>>]
    ELSE [ok |-> TRUE, exc |-> "", tpl |-> meta[name][1]]

\* meta.get_meta_strings(name)[0]: the first string of the field, or the
\* error raised when the field is missing or holds no string
FirstMetaString(meta, name) ==
    IF name \notin meta.keys THEN [ok |-> FALSE, exc |-> "RedisReplyError", tpl |-> <<>>]
    ELSE IF meta[name] = <<>> THEN [ok |-> FALSE, exc |-> "IndexError", tpl |-> <<>>]
    ELSE [ok |-> TRUE, exc |-> "", tpl |-> meta[name][1]]

\* line 42
DsNaming ==
    /\ gpc = "L42"
    /\ LET r == FirstMetaString(frame.meta, "dataset")
       IN IF r.ok
          THEN /\ frame' = [frame EXCEPT !.ds_naming = r.tpl]
               /\ gpc' = "L43"
               /\ UNCHANGED result
          ELSE /\ result' = Raised(r.exc, <<"dataset">>)
               /\ gpc' = "raised"
               /\ UNCHANGED frame
    /\ UNCHANGED <<client, Local>>

\* the two keyword arguments exchanged
DsContext_swapped(timestep, processor) ==
    ("time_index" :> processor) @@ ("mpi_rank" :> timestep)

\* render(time_index=timestep, mpi_rank=processor)
DsContext(timestep, processor) ==
    ("time_index" :> timestep) @@ ("mpi_rank" :> processor)

\* render(name=field_name, patch="internal")
FieldContext(field) ==
    ("name" :> PyStr(field)) @@ ("patch" :> PyStr("internal"))

\* line 43
DsRender ==
    /\ gpc = "L43"
    /\ frame' = [frame EXCEPT !.ds_name =
                     Render(frame.ds_naming, DsContext(frame.timestep, frame.processor))]
    /\ gpc' = "L44"
    /\ UNCHANGED <<result, client, Local>>

\* line 44
FNaming ==
    /\ gpc = "L44"
    /\ LET r == FirstMetaString(frame.meta, "field")
       IN IF r.ok
          THEN /\ frame' = [frame EXCEPT !.f_naming = r.tpl]
               /\ gpc' = "L45"
               /\ UNCHANGED result
          ELSE /\ result' = Raised(r.exc, <<"field">>)
               /\ gpc' = "raised"
               /\ UNCHANGED frame
    /\ UNCHANGED <<client, Local>>

\* line 45
FRender ==
    /\ gpc = "L45"
    /\ frame' = [frame EXCEPT !.f_name =
                     Render(frame.f_naming, FieldContext(frame.field_name))]
    /\ gpc' = "L46"
    /\ UNCHANGED <<result, client, Local>>

\* f"{{{ds_name}}}.{f_name}"
FieldKey(ds, f) == "{" \o ds \o "}." \o f

\* line 46 with the prefix the client had at the call put into the name
Return_stale ==
    /\ gpc = "L46"
    /\ result' = Returned(FieldKey(Key(frame.client0.source, frame.ds_name), frame.f_name))
    /\ gpc' = "returned"
    /\ UNCHANGED <<frame, client, Local>>

\* line 46
Return ==
    /\ gpc = "L46"
    /\ result' = Returned(FieldKey(frame.ds_name, frame.f_name))
    /\ gpc' = "returned"
    /\ UNCHANGED <<frame, client, Local>>

get_field_name ==
    \/ IfMember
    \/ SetDataSource
    \/ UseDatasetEnsemblePrefix
    \/ UseListEnsemblePrefix
    \/ UseModelEnsemblePrefix
    \/ UseTensorEnsemblePrefix
    \/ DsName
    \/ PollDataset
    \/ RaiseNotFound
    \/ GetDatasetStep
    \/ DsNaming
    \/ DsRender
    \/ FNaming
    \/ FRender
    \/ Return

\* client.tensor_exists(name)
TensorExists(c, name) == Key(ReadPrefix(c, c.tensor), name) \in tensors

-----------------------------------------------------------------------------
(* The solver processes: the function object of each run posts its naming  *)
(* metadata once, then its fields.                                         *)

\* the store namespaces a solver is writing to: under Spec the members' and
\* the unprefixed one of a single run; in the script the members', from
\* exp.start(ensemble) until exp.stop(db)
Running ==
    IF pc = "caller" THEN Range(members) \cup {""}
    ELSE IF "start_ensemble" \in Range(steps) /\ "stop_db" \notin Range(steps)
         THEN Range(members)
         ELSE {}

Published(ns) == DatasetExists(Key(ns, MetaName(fn_name)))

\* the members run copies of one case (to_copy), so their function objects
\* are configured with the same templates
CaseMetas(ns) ==
    LET posted == {d.meta : d \in {x \in datasets :
                       \E m \in Range(members) : x.key = Key(m, MetaName(fn_name))}}
    IN IF ns = "" \/ posted = {} THEN MetaPool ELSE posted

PublishMetadata ==
    /\ \E ns \in Running :
          /\ ~Published(ns)
          /\ \E m \in CaseMetas(ns) :
                datasets' = datasets \cup {[key |-> Key(ns, MetaName(fn_name)), meta |-> m]}
    /\ UNCHANGED <<pc, gpc, frame, result, client, SSKEYIN, tensors, members,
                   idx, t_exists, steps, log, scoped_by, memo>>

\* the field U of rank 0 at time index 1, named by the run's own templates
WriteTensor ==
    /\ \E ns \in Running :
          /\ Published(ns)
          /\ LET m == GetDataset(Key(ns, MetaName(fn_name)))
                 dctx == DsContext(PyInt(1), PyInt(0))
                 fctx == FieldContext("U")
             IN /\ m.dataset # <<>> /\ m.field # <<>>
                /\ Unknown(m.dataset[1], dctx) = {} /\ Unknown(m.field[1], fctx) = {}
                /\ LET k == Key(ns, FieldKey(Render(m.dataset[1], dctx),
                                             Render(m.field[1], fctx)))
                   IN k \notin tensors /\ tensors' = tensors \cup {k}
    /\ UNCHANGED <<pc, gpc, frame, result, client, SSKEYIN, datasets, members,
                   idx, t_exists, steps, log, scoped_by, memo>>

-----------------------------------------------------------------------------
(* A caller of get_field_name: any request, for any member or none, one    *)
(* call after the other.                                                   *)

Requests ==
    { [field_name |-> "U", processor |-> PyInt(0), timestep |-> PyInt(1)],
      [field_name |-> "p", processor |-> PyInt(12), timestep |-> PyNone] }

Call ==
    /\ pc = "caller"
    /\ gpc \in {"none", "returned", "raised"}
    /\ \E r \in Requests, m \in {PyNone} \cup {Entity(n) : n \in Range(members)} :
          Enter(fn_name, r.field_name, r.processor, r.timestep, m)
    /\ UNCHANGED <<pc, client, SSKEYIN, datasets, tensors, members, idx, t_exists,
                   steps, log, memo>>

Init ==
    /\ pc = "caller"
    /\ gpc = "none"
    /\ frame = NoFrame
    /\ result = NoResult
    /\ members = Entities(HarnessMembers)
    /\ client \in InitialClients(members)
    /\ SSKEYIN \in {PyNone, PyStr(Join(members))}
    /\ datasets = {}
    /\ tensors = {}
    /\ idx = 0
    /\ t_exists = FALSE
    /\ steps = <<>>
    /\ log = <<>>
    /\ scoped_by = ""
    /\ memo = NoMemo

Next ==
    \/ Call
    \/ get_field_name
    \/ PublishMetadata

Spec == Init /\ [][Next]_vars

-----------------------------------------------------------------------------
(* The module-level script, lines 61-110 *)

\* the steps of the script, in the order of its statements
Lifecycle ==
    <<"start_db", "create_ensemble", "attach", "generate", "fix_paths",
      "start_ensemble", "set_env", "create_client", "query", "stop_db">>

\* a statement has run to its end: the next one starts
Completes(step, next) ==
    /\ pc = step
    /\ steps' = Append(steps, step)
    /\ pc' = next

Resolver == <<gpc, frame, result, scoped_by>>

\* lines 62-63: exp.create_database, exp.start(db)
StartDatabase ==
    /\ Completes("start_db", "create_ensemble")
    /\ UNCHANGED <<Resolver, client, SSKEYIN, datasets, tensors, members, idx, t_exists, log, memo>>

\* lines 66-71: exp.create_ensemble("mesh-study", ..., n_models=4)
CreateEnsemble ==
    /\ Completes("create_ensemble", "attach")
    /\ members' = Entities(NModels)
    /\ UNCHANGED <<Resolver, client, SSKEYIN, datasets, tensors, idx, t_exists, log, memo>>

\* lines 74-76
AttachGeneratorFiles ==
    /\ Completes("attach", "generate")
    /\ UNCHANGED <<Resolver, client, SSKEYIN, datasets, tensors, members, idx, t_exists, log, memo>>

\* line 79
Generate ==
    /\ Completes("generate", "fix_paths")
    /\ UNCHANGED <<Resolver, client, SSKEYIN, datasets, tensors, members, idx, t_exists, log, memo>>

\* lines 82-89
FixPaths ==
    /\ Completes("fix_paths", "start_ensemble")
    /\ UNCHANGED <<Resolver, client, SSKEYIN, datasets, tensors, members, idx, t_exists, log, memo>>

\* line 92
StartEnsemble ==
    /\ Completes("start_ensemble", "set_env")
    /\ UNCHANGED <<Resolver, client, SSKEYIN, datasets, tensors, members, idx, t_exists, log, memo>>

\* lines 95-96
SetDataSources ==
    /\ Completes("set_env", "create_client")
    /\ SSKEYIN' = PyStr(Join(members))
    /\ UNCHANGED <<Resolver, client, datasets, tensors, members, idx, t_exists, log, memo>>

\* lines 100-101: the client's addressing state is the library's default
CreateClient ==
    /\ Completes("create_client", "loop")
    /\ client' \in {c \in InitialClients(members) : c.source \in {"", members[1]}}
    /\ UNCHANGED <<Resolver, SSKEYIN, datasets, tensors, members, idx, t_exists, log, memo>>

\* line 104 with the call of line 105: the next member, or the end of the loop
LoopNext ==
    /\ pc = "loop"
    /\ IF idx < Len(members)
       THEN /\ idx' = idx + 1
            /\ Enter(fn_name, "U", PyInt(0), PyInt(1), Entity(members[idx + 1]))
            /\ pc' = "in_query"
            /\ UNCHANGED steps
       ELSE /\ steps' = Append(steps, "query")
            /\ pc' = "stop_db"
            /\ UNCHANGED <<Resolver, idx>>
    /\ UNCHANGED <<client, SSKEYIN, datasets, tensors, members, t_exists, log, memo>>

\* line 106: U_name is bound to what get_field_name returned
QueryExists ==
    /\ pc = "in_query"
    /\ gpc = "returned"
    /\ t_exists' = TensorExists(client, result.text)
    /\ log' = Append(log, [member |-> members[idx], source |-> client.source,
                           name |-> result.text, found |-> t_exists'])
    /\ pc' = "print"
    /\ UNCHANGED <<Resolver, client, SSKEYIN, datasets, tensors, members, idx, steps, memo>>

\* the loop left at the first tensor that is not found
AfterReport_abort(found) == IF found THEN "loop" ELSE "aborted"

\* where the loop goes after the report of line 107
AfterReport(found) == "loop"

\* line 107
PrintFound ==
    /\ pc = "print"
    /\ pc' = AfterReport(t_exists)
    /\ gpc' = "none"
    /\ UNCHANGED <<frame, result, scoped_by, client, SSKEYIN, datasets, tensors,
                   members, idx, t_exists, steps, log, memo>>

\* where the script goes when a statement raises: nothing catches it
Uncaught == "aborted"

\* the exception get_field_name raised caught in the loop, which carries on
Propagate_caught ==
    /\ pc = "in_query"
    /\ gpc = "raised"
    /\ pc' = "loop"
    /\ UNCHANGED <<Resolver, client, SSKEYIN, datasets, tensors, members, idx,
                   t_exists, steps, log, memo>>

\* the exception get_field_name raised leaves the loop and ends the script
Propagate ==
    /\ pc = "in_query"
    /\ gpc = "raised"
    /\ pc' = Uncaught
    /\ UNCHANGED <<Resolver, client, SSKEYIN, datasets, tensors, members, idx,
                   t_exists, steps, log, memo>>

\* a call into the experiment manager, the file system or the store fails
StepFails ==
    /\ pc \in {"start_db", "create_ensemble", "attach", "generate", "fix_paths",
               "start_ensemble", "create_client", "stop_db"}
    /\ pc' = Uncaught
    /\ UNCHANGED <<Resolver, client, SSKEYIN, datasets, tensors, members, idx,
                   t_exists, steps, log, memo>>

\* line 110
StopDatabase ==
    /\ Completes("stop_db", "done")
    /\ UNCHANGED <<Resolver, client, SSKEYIN, datasets, tensors, members, idx, t_exists, log, memo>>

ScriptInit ==
    /\ pc = "start_db"
    /\ gpc = "none"
    /\ frame = NoFrame
    /\ result = NoResult
    /\ members = <<>>
    /\ client = NoClient
    /\ SSKEYIN \in {PyNone, PyStr("inherited")}
    /\ datasets = {}
    /\ tensors = {}
    /\ idx = 0
    /\ t_exists = FALSE
    /\ steps = <<>>
    /\ log = <<>>
    /\ scoped_by = ""
    /\ memo = NoMemo

ScriptNext ==
    \/ StartDatabase
    \/ CreateEnsemble
    \/ AttachGeneratorFiles
    \/ Generate
    \/ FixPaths
    \/ StartEnsemble
    \/ SetDataSources
    \/ CreateClient
    \/ LoopNext
    \/ get_field_name
    \/ QueryExists
    \/ PrintFound
    \/ Propagate
    \/ StepFails
    \/ StopDatabase
    \/ PublishMetadata
    \/ WriteTensor

ScriptSpec == ScriptInit /\ [][ScriptNext]_vars

-----------------------------------------------------------------------------
(* Two calls on one unchanging store: an earlier call that returned is     *)
(* remembered and compared with the later ones.                            *)

\* the metadata whose templates reference supplied parameters only
Supplied ==
    { m \in MetaPool :
        /\ \A k \in 1..Len(m.dataset) :
              Unknown(m.dataset[k], DsContext(PyNone, PyNone)) = {}
        /\ \A k \in 1..Len(m.field) : Unknown(m.field[k], FieldContext("")) = {} }

Remember ==
    /\ pc = "caller"
    /\ gpc = "returned"
    /\ ~memo.set
    /\ memo' = [set |-> TRUE, fn_name |-> frame.fn_name, field_name |-> frame.field_name,
                processor |-> frame.processor, timestep |-> frame.timestep,
                ensemble_member |-> frame.ensemble_member, client0 |-> frame.client0,
                read_key |-> frame.read_key, text |-> result.text]
    /\ UNCHANGED <<pc, gpc, frame, result, client, SSKEYIN, datasets, tensors, members,
                   idx, t_exists, steps, log, scoped_by>>

\* the metadata posted before the calls: by a single run or not, and by any
\* of the members, which share their templates
PostedStores(names) ==
    { (IF single = NoMeta THEN {} ELSE {[key |-> MetaName(fn_name), meta |-> single]})
        \cup {[key |-> Key(n, MetaName(fn_name)), meta |-> shared] : n \in posted} :
      single \in Supplied \cup {NoMeta}, shared \in Supplied, posted \in SUBSET Range(names) }

DetInit ==
    /\ pc = "caller"
    /\ gpc = "none"
    /\ frame = NoFrame
    /\ result = NoResult
    /\ members = Entities(HarnessMembers)
    /\ client \in InitialClients(members)
    /\ SSKEYIN = PyStr(Join(members))
    /\ datasets \in PostedStores(members)
    /\ tensors = {}
    /\ idx = 0
    /\ t_exists = FALSE
    /\ steps = <<>>
    /\ log = <<>>
    /\ scoped_by = ""
    /\ memo = NoMemo

DetNext ==
    \/ Call
    \/ get_field_name
    \/ Remember

DetSpec == DetInit /\ [][DetNext]_vars

-----------------------------------------------------------------------------
(* Properties *)

Given == frame.ensemble_member # PyNone
\* the statements of lines 31-36 of a call with a member have not all run
Scoping == Given /\ gpc \in {"L31", "L32", "L33", "L34", "L35", "L36"}
\* a store read of the call has been issued
HasRead == frame.tries > 0

\* C1: in a call with an ensemble member, whenever the call is about to issue
\* a store read (the poll of line 38, the fetch of line 41) the client's data
\* source is the member's name and all four prefix toggles are on, and every
\* read issued so far went to the member's namespace.
C1_ScopedBeforeRead ==
    Given =>
        /\ gpc \in {"L38", "L41"} => Scoped(client, frame.ensemble_member.s)
        /\ HasRead => frame.read_key = Key(frame.ensemble_member.s, MetaName(frame.fn_name))

\* a call with a member has polled, on a client that came with the model
\* toggle off and another source
C1_Witness ==
    /\ Given /\ gpc = "L38" /\ HasRead
    /\ ~frame.client0.model
    /\ frame.client0.source # frame.ensemble_member.s

\* C2: a call that returns, returns "{" + dataset template rendered with
\* time_index=timestep, mpi_rank=processor + "}." + field template rendered
\* with name=field_name, patch="internal"; the templates ts{{time_index}}_p{{mpi_rank}}
\* and {{name}}_{{patch}} with timestep 1, processor 0, field U give {ts1_p0}.U_internal.
C2_ReturnedKey ==
    gpc = "returned" =>
        /\ result.kind = "return"
        /\ result.text =
             "{" \o Render(frame.meta.dataset[1],
                           ("time_index" :> frame.timestep) @@ ("mpi_rank" :> frame.processor))
                 \o "}."
                 \o Render(frame.meta.field[1],
                           ("name" :> PyStr(frame.field_name)) @@ ("patch" :> PyStr("internal")))
        /\ ( /\ frame.meta.dataset[1] = T_ds /\ frame.meta.field[1] = T_field
             /\ frame.timestep = PyInt(1) /\ frame.processor = PyInt(0)
             /\ frame.field_name = "U" )
           => result.text = "{ts1_p0}.U_internal"

C2_Witness ==
    /\ gpc = "returned"
    /\ frame.meta.dataset[1] = T_ds /\ frame.meta.field[1] = T_field
    /\ result.text = "{ts1_p0}.U_internal"

\* the poll of the current call used up its tries without finding the dataset
PollExhausted == frame.tries = PollTries /\ ~frame.ds_found

\* C3: when the metadata dataset is still absent after the ten tries, the call
\* ends in the not-found error whose message names the dataset and the inbound
\* key prefix, whatever the state of SSKEYIN.
C3_NotFoundNamesDatasetAndPrefix ==
    /\ frame.tries <= PollTries
    /\ (PollExhausted /\ gpc # "L40") =>
        /\ gpc = "raised"
        /\ frame.meta = NoMeta
        /\ result.kind = "raise"
        /\ result.exc = "ValueError"
        /\ MetaName(frame.fn_name) \in Range(result.msg)
        /\ SSKEYIN.s \in Range(result.msg)

\* C4: a call whose dataset or field template references a parameter that is
\* not supplied never returns a key.
C4_UnknownParameterFails ==
    gpc = "returned" =>
        /\ Unknown(frame.ds_naming, DsContext(frame.timestep, frame.processor)) = {}
        /\ Unknown(frame.f_naming, FieldContext(frame.field_name)) = {}

\* C5: at the existence check of line 106, for a resolved key that is stored
\* in the namespace of member M and not in that of another member N, the
\* answer is true when the call before it was given M and false when it was
\* given N; the keys of the two namespaces differ.
C5_MembersDoNotCollide ==
    [][ (pc = "in_query" /\ pc' = "print") =>
          \A M \in Range(members), N \in Range(members) :
              ( /\ M # N
                /\ Key(M, result.text) \in tensors
                /\ Key(N, result.text) \notin tensors )
              => /\ Key(M, result.text) # Key(N, result.text)
                 /\ frame.ensemble_member = Entity(M) => t_exists'
                 /\ frame.ensemble_member = Entity(N) => ~t_exists' ]_vars

\* the key is stored for the first member only: the client scoped to the
\* first was answered true, and scoped to the second it is answered false
C5_Witness ==
    /\ pc = "print" /\ idx = 2 /\ ~t_exists
    /\ log[1].found
    /\ log[1].name = result.text
    /\ Key(members[1], result.text) \in tensors
    /\ Key(members[2], result.text) \notin tensors

\* C6: a call without a member leaves the client as it was at the call, while
\* it runs and after it ended either way; outside lines 31-36 of a call with a
\* member the client is scoped to the member of the most recent call that was
\* given one, and a call without a member reads in that namespace.
C6_MemberlessLeavesScope ==
    /\ (~Given /\ gpc # "none") => client = frame.client0
    /\ (scoped_by # "" /\ ~Scoping) => Scoped(client, scoped_by)
    /\ (~Given /\ scoped_by # "" /\ HasRead)
          => frame.read_key = Key(scoped_by, MetaName(frame.fn_name))

\* a call without a member has returned after reading in the namespace of the
\* member given to an earlier call
C6_Witness ==
    /\ ~Given /\ gpc = "returned"
    /\ scoped_by = members[1]
    /\ frame.read_key = Key(members[1], MetaName(fn_name))

SameArguments ==
    /\ frame.fn_name = memo.fn_name
    /\ frame.field_name = memo.field_name
    /\ frame.processor = memo.processor
    /\ frame.timestep = memo.timestep
    /\ frame.ensemble_member = memo.ensemble_member

\* C7 as stated: on an unchanged store, a call that returns with the arguments
\* of an earlier call that returned, returns the same string, whatever state
\* earlier calls left the client in.
C7_SameArgumentsSameKey ==
    (memo.set /\ gpc = "returned" /\ SameArguments) => result.text = memo.text

\* C7 amended: on an unchanged store, two calls that return with the same
\* arguments and read the metadata under the same key return the same string,
\* whatever state earlier calls left the client in.
C7_SameArgumentsAndScopeSameKey ==
    (memo.set /\ gpc = "returned" /\ SameArguments /\ frame.read_key = memo.read_key)
        => result.text = memo.text

\* the second of two such calls found the client scoped to the member by an
\* earlier call, the first had found it in another state
C7_Witness ==
    /\ memo.set /\ gpc = "returned" /\ SameArguments
    /\ frame.read_key = memo.read_key
    /\ Given
    /\ Scoped(frame.client0, frame.ensemble_member.s)
    /\ memo.client0 # frame.client0
    /\ result.text = memo.text

\* C8: the k-th tensor_exists call is for the k-th member and is made with the
\* client scoped to it; there is one per member the loop got past, all of them
\* once the loop has ended; the script never ends at a reported result.
C8_OneQueryPerMember ==
    /\ \A k \in 1..Len(log) :
          /\ log[k].member = members[k]
          /\ log[k].source = members[k]
    /\ pc \in {"loop", "print"} => Len(log) = idx
    /\ pc = "in_query" => Len(log) = idx - 1
    /\ "query" \in Range(steps) => Len(log) = NModels
    /\ (pc = "aborted" /\ idx > 0 /\ "query" \notin Range(steps)) => Len(log) = idx - 1

\* the loop has ended after a member whose tensor was not found and a later
\* one whose tensor was found
C8_Witness ==
    /\ "query" \in Range(steps)
    /\ ~log[1].found
    /\ log[2].found

\* the statement the script is at, by the steps completed
AtStep ==
    IF Len(steps) = Len(Lifecycle) THEN {"done"}
    ELSE IF Lifecycle[Len(steps) + 1] = "query" THEN {"loop", "in_query", "print"}
    ELSE {Lifecycle[Len(steps) + 1]}

\* C9: the completed steps are a prefix of the lifecycle and the script is at
\* the step after them or has aborted there; stop database completes only
\* after every step before it, with every member queried; once a step has
\* failed the script does nothing more.
C9_LinearLifecycle ==
    /\ [](/\ Len(steps) <= Len(Lifecycle)
          /\ \A k \in 1..Len(steps) : steps[k] = Lifecycle[k]
          /\ pc \in AtStep \cup {"aborted"}
          /\ "stop_db" \in Range(steps) => Len(log) = NModels
          /\ (pc = "aborted" /\ gpc = "raised") => Len(log) = idx - 1)
    /\ [][pc = "aborted" => UNCHANGED <<pc, gpc, frame, result, client, SSKEYIN,
                                        idx, t_exists, steps, log>>]_vars

\* the resolution for the second member failed after the first was reported
C9_Witness ==
    /\ pc = "aborted" /\ gpc = "raised"
    /\ idx = 2 /\ Len(log) = 1
    /\ "stop_db" \notin Range(steps)

\* the metadata field is missing or holds no string
NoTemplate(meta, name) == name \notin meta.keys \/ meta[name] = <<>>

\* C10: a call that fetched a metadata dataset without a "dataset" or "field"
\* template ends in an error; a call that returns has used the first string of
\* each field.
C10_MissingTemplateFails ==
    /\ ( /\ gpc \in {"returned", "raised"}
         /\ frame.ds_found
         /\ NoTemplate(frame.meta, "dataset") \/ NoTemplate(frame.meta, "field") )
       => (gpc = "raised" /\ result.kind = "raise")
    /\ gpc = "returned" =>
         /\ ~NoTemplate(frame.meta, "dataset") /\ ~NoTemplate(frame.meta, "field")
         /\ frame.ds_naming = frame.meta.dataset[1]
         /\ frame.f_naming = frame.meta.field[1]

\* the dataset template was rendered and the call failed for the missing field
C10_Witness ==
    /\ gpc = "raised" /\ frame.ds_found
    /\ frame.ds_naming = T_ds
    /\ "field" \notin frame.meta.keys

====
